---- MODULE Spec2Model ----
(***************************************************************************)
(* Model of surimi's MockServer (src/src/lib.rs): the fluent builder, the  *)
(* start() operation and the background ws_handler task with its accept    *)
(* loop and per-connection reply loop.                                     *)
(*                                                                         *)
(* ws_handler is one task: it accepts a TCP stream, performs the WebSocket *)
(* handshake and runs the message loop of that connection inline, before   *)
(* it polls the listener again.  Every `?` in it returns Err from          *)
(* ws_handler, which the spawned task unwraps: the task panics and the     *)
(* listener it owns is dropped.                                            *)
(***************************************************************************)
EXTENDS Naturals, Sequences, FiniteSets

\* ---- bounds ----
MaxConns == 3      \* client connections attempted over a run
MaxMsgs  == 2      \* WebSocket messages the clients send over a run
MaxLen   == 2      \* length of a sequence passed to responses()
MaxServers == 2    \* MockServer values built and started over a run

Conns == 1 .. MaxConns

\* serde_json values used as payloads
Values == { [hello |-> "world"], [hello |-> "france"] }

\* payloads of ping frames
PingData == { "X", "Y" }

RECURSIVE SeqsUpTo(_, _)
SeqsUpTo(S, n) ==
    IF n = 0 THEN { <<>> }
    ELSE LET shorter == SeqsUpTo(S, n - 1)
         IN  shorter \cup { Append(s, v) : s \in shorter, v \in S }

\* arguments of responses() the model enumerates
ResponseSeqs == SeqsUpTo(Values, MaxLen)

\* host strings given to host(); the last one does not resolve
Hosts == { "localhost", "127.0.0.1", "nohost.invalid" }

\* u16 ports given to port(); 0 asks the OS for an ephemeral port
Ports == { 0, 8080, 49152 }

\* the ports the OS hands out for port 0
EphemeralPorts == { 49152, 49153 }

\* the same, for the runs that start one server only and follow its clients
OneEphemeralPort == { 49152 }

\* MockServerOptions::default()
DefaultOptions == [host |-> "localhost", port |-> 0]

\* what start() has returned: nothing yet, Ok((host, port)) or Err
NoResult == [state |-> "none", host |-> "", port |-> 0]
Ok(h, p) == [state |-> "ok", host |-> h, port |-> p]
Err      == [state |-> "err", host |-> "", port |-> 0]

\* ---- messages (tungstenite::protocol::Message) ----
Text(s)   == [type |-> "Text",   data |-> s]
Binary(s) == [type |-> "Binary", data |-> s]
Ping(s)   == [type |-> "Ping",   data |-> s]
Pong(s)   == [type |-> "Pong",   data |-> s]
Close     == [type |-> "Close",  data |-> ""]

\* messages a client may send
ClientMsgs == { Text("Some request"), Binary("Some request"), Close }
                  \cup { Ping(x) : x \in PingData }

\* the text sent when the session's queue is empty
NoMoreResponse == "No more response"

\* serde_json::Value::to_string of an object with the single key "hello"
to_string(v) == "{\"hello\":\"" \o v.hello \o "\"}"

\* Vec::reverse
RECURSIVE reverse(_)
reverse(s) == IF s = <<>> THEN <<>> ELSE Append(reverse(Tail(s)), Head(s))

\* Vec::pop: the last element and the vector without it (None on empty)
pop(q) ==
    IF q = <<>> THEN [some |-> FALSE, rest |-> q]
    ELSE [some |-> TRUE, val |-> q[Len(q)], rest |-> SubSeq(q, 1, Len(q) - 1)]

VARIABLES
    pc,             \* "building" | "binderr" | "accept" | "handshake" |
                    \* "session" | "panicked"
    options,        \* MockServer.options
    lastCall,       \* the last builder call and its argument
    result,         \* what start() returned
    listener,       \* the port the listener of start() is bound to (0: none)
    held,           \* ports held by the listeners of servers started earlier
    spawned,        \* tasks spawned by start() so far
    nservers,       \* MockServer values created so far
    responses,      \* MockServer.responses (as stored)
    configured,     \* the argument of the last responses() call
    backlog,        \* streams the listener holds, in arrival order
    cur,            \* the connection ws_handler is working on (0: none)
    st,             \* per connection: its fate so far
    transport,      \* per connection: "up" | "reset" | "eof" by the peer,
                    \* "down" once the socket is dropped after a close frame
    inbox,          \* per connection: messages sent by the peer, not yet read
    rcvd,           \* per connection: messages socket.next() has returned
    sent,           \* per connection: messages the server has sent
    queue           \* per connection: the session's local `responses`

\* the connections and sessions of the running server
svars == << backlog, cur, st, transport, inbox, rcvd, sent, queue >>

\* the builder, the result of start() and the ports
bvars == << options, lastCall, result, listener, held, spawned, nservers >>

vars == << pc, responses, configured, backlog, cur, st, transport,
           inbox, rcvd, sent, queue, options, lastCall, result, listener,
           held, spawned, nservers >>

\* MockServer::default(), no client yet
Init ==
    /\ pc = "building"
    /\ responses = <<>>
    /\ configured = <<>>
    /\ backlog = <<>>
    /\ cur = 0
    /\ st = [c \in Conns |-> "none"]
    /\ transport = [c \in Conns |-> "up"]
    /\ inbox = [c \in Conns |-> <<>>]
    /\ rcvd = [c \in Conns |-> <<>>]
    /\ sent = [c \in Conns |-> <<>>]
    /\ queue = [c \in Conns |-> <<>>]
    /\ options = DefaultOptions
    /\ lastCall = [op |-> "default"]
    /\ result = NoResult
    /\ listener = 0
    /\ held = {}
    /\ spawned = 0
    /\ nservers = 1

\* ---- builder ----

\* responses() without the reverse(): the vector is stored as given
StoredResponses_NoReverse(r) == r

\* MockServer::responses: store the reversed clone of the argument
StoredResponses(r) == reverse(r)

SetResponses(r) ==
    /\ pc = "building"
    /\ responses' = StoredResponses(r)
    /\ configured' = r
    /\ lastCall' = [op |-> "responses", arg |-> r]
    /\ UNCHANGED << pc, options, result, listener, held, spawned, nservers >>
    /\ UNCHANGED svars

\* host() rebuilding the options from the default ones
WithHost_FromDefault(o, h) == [host |-> h, port |-> 0]

\* `self.options.host = host`
WithHost(o, h) == [o EXCEPT !.host = h]

\* `self.options.port = port`
WithPort(o, p) == [o EXCEPT !.port = p]

\* MockServer::host
SetHost(h) ==
    /\ pc = "building"
    /\ options' = WithHost(options, h)
    /\ lastCall' = [op |-> "host", arg |-> h]
    /\ UNCHANGED << pc, responses, configured, result, listener, held,
                    spawned, nservers >>
    /\ UNCHANGED svars

\* MockServer::port
SetPort(p) ==
    /\ pc = "building"
    /\ options' = WithPort(options, p)
    /\ lastCall' = [op |-> "port", arg |-> p]
    /\ UNCHANGED << pc, responses, configured, result, listener, held,
                    spawned, nservers >>
    /\ UNCHANGED svars

\* the bind moved into the spawned task: no listener before the task has
\* taken its first stream
Listening_AfterFirstAccept == pc \in { "handshake", "session" }

\* the listener exists: from start() until the task running ws_handler ends
Listening == pc \in { "accept", "handshake", "session" }

\* the ports some listener holds
PortsInUse == held \cup (IF Listening THEN { listener } ELSE {})

\* a bind that shares a fixed port already held (SO_REUSEPORT)
bind_Shared(host, port, inuse, eph) ==
    IF host = "nohost.invalid" THEN {}
    ELSE IF port # 0 THEN { port }
    ELSE eph \ inuse

\* TcpListener::bind("host:port"): the ports the new listener may end up
\* bound to, none when the bind fails (the host does not resolve, the fixed
\* port is held by a listener, no ephemeral port is free); eph: the ports
\* the OS has on offer for port 0
bind(host, port, inuse, eph) ==
    IF host = "nohost.invalid" THEN {}
    ELSE IF port # 0 THEN { port } \ inuse
    ELSE eph \ inuse

\* start() returning the configured port instead of the listener's
StartReturn_ConfiguredPort(host, port, bound) == Ok(host, port)

\* the Ok value of start(): the configured host and listener.local_addr()'s port
StartReturn(host, port, bound) == Ok(host, bound)

\* start() spawning the task before it looks at the result of the bind
TasksAfterStart_SpawnFirst(n, bindOk) == n + 1

\* the tasks spawned once start() has returned: `?` on the bind returns
\* before task::spawn
TasksAfterStart(n, bindOk) == IF bindOk THEN n + 1 ELSE n

\* MockServer::start: bind, then spawn the task running ws_handler and
\* return the address; a failed bind returns the error
Start(eph) ==
    /\ pc = "building"
    /\ LET bs == bind(options.host, options.port, PortsInUse, eph)
       IN  /\ spawned' = TasksAfterStart(spawned, bs # {})
           /\ IF bs = {}
              THEN /\ result' = Err
                   /\ listener' = 0
                   /\ pc' = "binderr"
              ELSE /\ \E b \in bs :
                        /\ listener' = b
                        /\ result' = StartReturn(options.host, options.port, b)
                   /\ pc' = "accept"
    /\ UNCHANGED << responses, configured, options, lastCall, held, nservers >>
    /\ UNCHANGED svars

\* the caller builds another server with MockServer::default() once start()
\* has consumed the one before; a listener bound by that start() stays with
\* its task
NewServer ==
    /\ pc \in { "accept", "binderr" }
    /\ nservers < MaxServers
    /\ nservers' = nservers + 1
    /\ held' = PortsInUse
    /\ listener' = 0
    /\ pc' = "building"
    /\ options' = DefaultOptions
    /\ responses' = <<>>
    /\ configured' = <<>>
    /\ lastCall' = [op |-> "default"]
    /\ result' = NoResult
    /\ UNCHANGED spawned
    /\ UNCHANGED svars

\* ---- clients ----

\* a client opens a TCP connection to the listener; connections are numbered
\* in arrival order
ClientConnect(c) ==
    /\ Listening
    /\ st[c] = "none"
    /\ \A d \in Conns : d < c => st[d] # "none"
    /\ st' = [st EXCEPT ![c] = "pending"]
    /\ backlog' = Append(backlog, c)
    /\ UNCHANGED << pc, responses, configured, cur, transport, inbox, rcvd,
                    sent, queue >>
    /\ UNCHANGED bvars

\* the messages the clients of S have sent so far
RECURSIVE MsgCount(_)
MsgCount(S) ==
    IF S = {} THEN 0
    ELSE LET c == CHOOSE d \in S : TRUE
         IN  Len(rcvd[c]) + Len(inbox[c]) + MsgCount(S \ {c})

\* a client whose handshake completed sends a message
ClientSend(c, m) ==
    /\ st[c] = "open"
    /\ transport[c] = "up"
    /\ MsgCount(Conns) < MaxMsgs
    /\ inbox' = [inbox EXCEPT ![c] = Append(@, m)]
    /\ UNCHANGED << pc, responses, configured, backlog, cur, st, transport,
                    rcvd, sent, queue >>
    /\ UNCHANGED bvars

\* the peer goes away without a close frame: the transport is reset, or the
\* stream just ends
ClientDrop(c, how) ==
    /\ st[c] = "open"
    /\ transport[c] = "up"
    /\ transport' = [transport EXCEPT ![c] = how]
    /\ UNCHANGED << pc, responses, configured, backlog, cur, st, inbox,
                    rcvd, sent, queue >>
    /\ UNCHANGED bvars

\* ---- ws_handler ----

\* an accept loop that leaves the reply loop to a task of its own: the next
\* stream is taken while a session is open
Accept_WhileServing ==
    /\ pc \in { "accept", "session" }
    /\ backlog # <<>>
    /\ cur' = Head(backlog)
    /\ backlog' = Tail(backlog)
    /\ pc' = "handshake"
    /\ UNCHANGED << responses, configured, st, transport, inbox, rcvd,
                    sent, queue >>
    /\ UNCHANGED bvars

\* `let stream = stream?` after incoming.next(): take the oldest stream the
\* listener holds
Accept ==
    /\ pc = "accept"
    /\ backlog # <<>>
    /\ cur' = Head(backlog)
    /\ backlog' = Tail(backlog)
    /\ pc' = "handshake"
    /\ UNCHANGED << responses, configured, st, transport, inbox, rcvd,
                    sent, queue >>
    /\ UNCHANGED bvars

\* the task panics on the Err of connection c: the listener and the socket
\* of c are dropped, and with the listener the streams nobody accepted yet
AfterPanic(c, fate) ==
    [d \in Conns |-> IF d = c THEN fate
                     ELSE IF st[d] = "pending" THEN "dropped"
                     ELSE st[d]]

\* the local `responses` hoisted out of the accept loop: a session goes on
\* with what the session before it left
SessionQueue_Shared(c) == IF c > 1 THEN queue[c - 1] ELSE responses

\* `let mut responses = self.responses.clone()`: what a new session starts from
SessionQueue(c) == responses

\* `accept_async(stream).await?` then the clone of the configured responses;
\* a failed handshake (ok = FALSE: the peer does not complete the upgrade) is
\* an Err returned from ws_handler, unwrapped by the task
Handshake(ok) ==
    /\ pc = "handshake"
    /\ IF ok
       THEN /\ st' = [st EXCEPT ![cur] = "open"]
            /\ queue' = [queue EXCEPT ![cur] = SessionQueue(cur)]
            /\ pc' = "session"
            /\ cur' = cur
       ELSE /\ st' = AfterPanic(cur, "hsfailed")
            /\ queue' = queue
            /\ pc' = "panicked"
            /\ cur' = 0
    /\ UNCHANGED << responses, configured, backlog, transport, inbox,
                    rcvd, sent >>
    /\ UNCHANGED bvars

\* what reading a frame makes the protocol layer send by itself: a ping is
\* answered with a pong carrying the same payload
AutoReply(m) == IF m.type = "Ping" THEN << Pong(m.data) >> ELSE << >>

\* the reply loop without the `continue`: the sentinel follows every payload
Handle_NoContinue(m, q) ==
    CASE m.type = "Text" ->
            LET p == pop(q)
            IN  IF p.some
                THEN [out |-> << Text(to_string(p.val)), Text(NoMoreResponse) >>,
                      rest |-> p.rest, brk |-> FALSE]
                ELSE [out |-> << Text(NoMoreResponse) >>, rest |-> p.rest, brk |-> FALSE]
      [] m.type = "Close" -> [out |-> << >>, rest |-> q, brk |-> TRUE]
      [] OTHER -> [out |-> << >>, rest |-> q, brk |-> FALSE]

\* the reply loop without the sentinel: an exhausted queue sends nothing
Handle_Silent(m, q) ==
    CASE m.type = "Text" ->
            LET p == pop(q)
            IN  IF p.some
                THEN [out |-> << Text(to_string(p.val)) >>, rest |-> p.rest, brk |-> FALSE]
                ELSE [out |-> << >>, rest |-> p.rest, brk |-> FALSE]
      [] m.type = "Close" -> [out |-> << >>, rest |-> q, brk |-> TRUE]
      [] OTHER -> [out |-> << >>, rest |-> q, brk |-> FALSE]

\* the reply loop without the Close arm: a close frame falls into `_ => {}`
Handle_CloseIgnored(m, q) ==
    CASE m.type = "Text" ->
            LET p == pop(q)
            IN  IF p.some
                THEN [out |-> << Text(to_string(p.val)) >>, rest |-> p.rest, brk |-> FALSE]
                ELSE [out |-> << Text(NoMoreResponse) >>, rest |-> p.rest, brk |-> FALSE]
      [] OTHER -> [out |-> << >>, rest |-> q, brk |-> FALSE]

\* the reply loop matching every message but Close as a trigger
Handle_AnyTrigger(m, q) ==
    CASE m.type = "Close" -> [out |-> << >>, rest |-> q, brk |-> TRUE]
      [] OTHER ->
            LET p == pop(q)
            IN  IF p.some
                THEN [out |-> << Text(to_string(p.val)) >>, rest |-> p.rest, brk |-> FALSE]
                ELSE [out |-> << Text(NoMoreResponse) >>, rest |-> p.rest, brk |-> FALSE]

\* the `match message?` of the reply loop: the messages it sends, the
\* session's queue afterwards, and whether it leaves the loop
Handle(m, q) ==
    CASE m.type = "Text" ->
            LET p == pop(q)
            IN  IF p.some
                THEN [out |-> << Text(to_string(p.val)) >>, rest |-> p.rest, brk |-> FALSE]
                ELSE [out |-> << Text(NoMoreResponse) >>, rest |-> p.rest, brk |-> FALSE]
      [] m.type = "Close" -> [out |-> << >>, rest |-> q, brk |-> TRUE]
      [] OTHER -> [out |-> << >>, rest |-> q, brk |-> FALSE]

\* socket.next() returns Some(Ok(message)): one turn of the reply loop.
\* A write on a reset transport fails, and the Err leaves ws_handler.  After
\* `break` the socket goes out of scope and is dropped.
SessionMessage ==
    /\ pc = "session"
    /\ inbox[cur] # <<>>
    /\ LET c == cur
           m == Head(inbox[c])
           h == Handle(m, queue[c])
           out == AutoReply(m) \o h.out
       IN  /\ inbox' = [inbox EXCEPT ![c] = Tail(@)]
           /\ rcvd' = [rcvd EXCEPT ![c] = Append(@, m)]
           /\ queue' = [queue EXCEPT ![c] = h.rest]
           /\ IF out # <<>> /\ transport[c] = "reset"
              THEN /\ sent' = sent
                   /\ transport' = transport
                   /\ st' = AfterPanic(c, "errored")
                   /\ pc' = "panicked"
                   /\ cur' = 0
              ELSE /\ sent' = [sent EXCEPT ![c] = @ \o out]
                   /\ IF h.brk
                      THEN /\ st' = [st EXCEPT ![c] = "closed"]
                           /\ transport' = [transport EXCEPT ![c] = "down"]
                           /\ pc' = "accept"
                           /\ cur' = 0
                      ELSE /\ UNCHANGED << st, transport, pc, cur >>
    /\ UNCHANGED << responses, configured, backlog >>
    /\ UNCHANGED bvars

\* socket.next() returns Some(Err(_)): `message?` returns the Err
SessionReadError ==
    /\ pc = "session"
    /\ inbox[cur] = <<>>
    /\ transport[cur] = "reset"
    /\ st' = AfterPanic(cur, "errored")
    /\ pc' = "panicked"
    /\ cur' = 0
    /\ UNCHANGED << responses, configured, backlog, transport, inbox,
                    rcvd, sent, queue >>
    /\ UNCHANGED bvars

\* socket.next() returns None: the `while let` ends and the accept loop goes on
SessionEnd ==
    /\ pc = "session"
    /\ inbox[cur] = <<>>
    /\ transport[cur] = "eof"
    /\ st' = [st EXCEPT ![cur] = "ended"]
    /\ pc' = "accept"
    /\ cur' = 0
    /\ UNCHANGED << responses, configured, backlog, transport, inbox,
                    rcvd, sent, queue >>
    /\ UNCHANGED bvars

\* the steps of the task spawned by start()
ServerStep ==
    \/ Accept
    \/ \E ok \in BOOLEAN : Handshake(ok)
    \/ SessionMessage
    \/ SessionReadError
    \/ SessionEnd

Next ==
    \/ \E r \in ResponseSeqs : SetResponses(r)
    \/ Start(OneEphemeralPort)
    \/ \E c \in Conns : ClientConnect(c)
    \/ \E c \in Conns, m \in ClientMsgs : ClientSend(c, m)
    \/ \E c \in Conns, how \in { "reset", "eof" } : ClientDrop(c, how)
    \/ Accept
    \/ \E ok \in BOOLEAN : Handshake(ok)
    \/ SessionMessage
    \/ SessionReadError
    \/ SessionEnd

Spec == Init /\ [][Next]_vars

\* `server.responses = r`: the field is public, a caller may set it without
\* going through responses()
AssignResponses(r) ==
    /\ pc = "building"
    /\ responses' = r
    /\ configured' = r
    /\ lastCall' = [op |-> "field", arg |-> r]
    /\ UNCHANGED << pc, options, result, listener, held, spawned, nservers >>
    /\ UNCHANGED svars

\* the server and its clients, the caller also setting the public field
PubFieldNext ==
    \/ Next
    \/ \E r \in ResponseSeqs : AssignResponses(r)

PubFieldSpec == Init /\ [][PubFieldNext]_vars

\* the builder and start() alone, over several servers and no client
BuilderNext ==
    \/ \E h \in Hosts : SetHost(h)
    \/ \E p \in Ports : SetPort(p)
    \/ \E r \in ResponseSeqs : SetResponses(r)
    \/ Start(EphemeralPorts)
    \/ NewServer

BuilderSpec == Init /\ [][BuilderNext]_vars

\* the executor keeps running the spawned task while it can take a step;
\* nothing obliges a client to do anything
FairSpec == Spec /\ WF_vars(ServerStep)

TypeOK ==
    /\ pc \in { "building", "binderr", "accept", "handshake", "session",
               "panicked" }
    /\ options \in [host : Hosts, port : Ports]
    /\ result.state \in { "none", "ok", "err" }
    /\ listener \in Ports \cup EphemeralPorts
    /\ held \subseteq (Ports \cup EphemeralPorts)
    /\ spawned \in 0 .. MaxServers
    /\ nservers \in 1 .. MaxServers
    /\ cur \in Conns \cup { 0 }
    /\ responses \in ResponseSeqs
    /\ configured \in ResponseSeqs

\* ---- vocabulary of the properties ----

\* the text messages among the messages sent on a connection
TextReplies(s) == SelectSeq(s, LAMBDA m : m.type = "Text")

\* the number of text messages the reply loop of c has read
NTrig(c) == Len(SelectSeq(rcvd[c], LAMBDA m : m.type = "Text"))

\* the reply the caller's configuration promises to the i-th trigger
Expected(i) ==
    IF i <= Len(configured) THEN Text(to_string(configured[i]))
    ELSE Text(NoMoreResponse)

\* c completed the handshake and no read or write on it has failed
Served(c) == st[c] \in { "open", "closed", "ended" }

\* the reply loop of c reads, in this step, a message of type t over a
\* transport that still carries its writes
Reads(c, t) ==
    /\ pc = "session"
    /\ cur = c
    /\ rcvd'[c] # rcvd[c]
    /\ Head(inbox[c]).type = t
    /\ transport[c] # "reset"

\* the accept loop has taken c from the listener
Accepted(c) ==
    cur = c \/ st[c] \in { "open", "closed", "ended", "errored", "hsfailed" }

\* a close frame of the peer has been read on c
CloseRead(c) == \E i \in 1 .. Len(rcvd[c]) : rcvd[c][i].type = "Close"

\* C1: after k <= len(R) text triggers on one connection the text replies
\* sent on it are exactly R[1..k] in configured order, and the session still
\* holds R[k+1..] for later triggers.
C1_RepliesArePrefix ==
    \A c \in Conns :
        (Served(c) /\ NTrig(c) <= Len(configured)) =>
            /\ TextReplies(sent[c]) =
                   [i \in 1 .. NTrig(c) |-> Text(to_string(configured[i]))]
            /\ reverse(queue[c]) =
                   SubSeq(configured, NTrig(c) + 1, Len(configured))

C1_Witness ==
    \E c \in Conns :
        /\ st[c] = "open"
        /\ Len(configured) = 2
        /\ configured[1] # configured[2]
        /\ NTrig(c) = 1
        /\ sent[c] = << Text(to_string(configured[1])) >>
        /\ queue[c] = << configured[2] >>

\* C2: a text trigger read on a session whose queue is empty is answered
\* with the text "No more response", and the session stays open in its loop.
C2_ExhaustedSentinel ==
    [][ \A c \in Conns :
          (Reads(c, "Text") /\ queue[c] = <<>>) =>
              /\ sent'[c] = Append(sent[c], Text(NoMoreResponse))
              /\ queue'[c] = <<>>
              /\ st'[c] = "open"
              /\ pc' = "session"
              /\ cur' = c ]_vars

C2_Witness ==
    \E c \in Conns :
        /\ st[c] = "open"
        /\ pc = "session"
        /\ Len(configured) = 1
        /\ queue[c] = <<>>
        /\ sent[c] = << Text(to_string(configured[1])), Text(NoMoreResponse) >>

C4_StalledClientDoesNotBlock ==
    \A c \in Conns :
        (st[c] = "pending" /\ pc # "panicked")
            ~> (Accepted(c) \/ pc = "panicked")

\* C5: a failed opening handshake leaves the accept loop running.
C5_HandshakeFailureContained ==
    \A c \in Conns : st[c] = "hsfailed" => pc # "panicked"

\* C6: a failed read or write in a session leaves the accept loop running.
C6_TransportErrorContained ==
    \A c \in Conns : st[c] = "errored" => pc # "panicked"

\* C7: once the close frame of the peer has been read on a connection,
\* nothing more is sent on it, whatever the peer sent after the close.
C7_CloseIsTerminal ==
    [][ \A c \in Conns : CloseRead(c) => sent'[c] = sent[c] ]_vars

C7_Witness ==
    \E c, d \in Conns :
        /\ CloseRead(c)
        /\ \E i \in 1 .. Len(inbox[c]) : inbox[c][i].type = "Text"
        /\ st[d] = "open"

\* C8: a connection that arrives after a session was ended by a close frame
\* is eventually accepted.
C8_AcceptedAfterClose ==
    \A d \in Conns :
        []( ((\E c \in Conns : st[c] = "closed") /\ st[d] = "none")
               => []( (st[d] = "pending") ~> Accepted(d) ) )

\* C9: a ping read by the reply loop is answered with the pong of the same
\* payload and nothing else, and leaves the session's queue as it was.
C9_PingPong ==
    [][ \A c \in Conns :
          Reads(c, "Ping") =>
              /\ sent'[c] = Append(sent[c], Pong(Head(inbox[c]).data))
              /\ queue'[c] = queue[c]
              /\ st'[c] = "open" ]_vars

C9_Witness ==
    \E c \in Conns :
        /\ rcvd[c] = << Ping("X"), Ping("Y") >>
        /\ sent[c] = << Pong("X"), Pong("Y") >>
        /\ queue[c] # <<>>
        /\ queue[c] = responses

\* C10: a binary message read by the reply loop is answered exactly as a
\* text message is: the next payload is popped and sent, or the sentinel.
C10_BinaryIsTrigger ==
    [][ \A c \in Conns :
          Reads(c, "Binary") =>
              /\ sent'[c] = sent[c] \o Handle(Text("Some request"), queue[c]).out
              /\ queue'[c] = Handle(Text("Some request"), queue[c]).rest ]_vars

\* this step is a call of start()
StartStep == result.state = "none" /\ result'.state # "none"

\* C11: a start() whose bind fails returns the error and leaves nothing
\* behind: no listener, no port taken, no task spawned.
C11_BindFailureLeavesNothing ==
    [][ ( /\ StartStep
          /\ bind(options.host, options.port, PortsInUse, EphemeralPorts) = {} ) =>
            /\ result' = Err
            /\ spawned' = spawned
            /\ listener' = 0
            /\ ~Listening'
            /\ PortsInUse' = PortsInUse ]_vars

C11_Witness ==
    /\ options.host = "nohost.invalid"
    /\ result = Err
    /\ spawned = 0
    /\ PortsInUse = {}

\* C12: start() with a fixed port that a listener holds fails; start() with
\* port 0 gets a port no listener holds, whenever an ephemeral port is free.
C12_PortCollision ==
    [][ StartStep =>
            /\ (options.port # 0 /\ options.port \in PortsInUse) => result' = Err
            /\ ( /\ options.port = 0
                 /\ options.host # "nohost.invalid"
                 /\ EphemeralPorts \ PortsInUse # {} ) =>
                    /\ result'.state = "ok"
                    /\ listener' \notin PortsInUse
                    /\ PortsInUse' = PortsInUse \cup { listener' } ]_vars

C12_Witness ==
    /\ nservers = 2
    /\ options = [host |-> "localhost", port |-> 8080]
    /\ held = { 8080 }
    /\ result = Err
    /\ spawned = 1

\* C13: a successful start() returns the configured host string and the port
\* its listener is bound to: the configured port when that is not 0, a
\* non-zero port chosen by the OS when it is 0.
C13_StartReturnsBoundAddress ==
    [][ (StartStep /\ result'.state = "ok") =>
            /\ result'.host = options.host
            /\ result'.port = listener'
            /\ result'.port # 0
            /\ options.port # 0 => result'.port = options.port
            /\ options.port = 0 => result'.port \in EphemeralPorts ]_vars

C13_Witness ==
    /\ options = [host |-> "127.0.0.1", port |-> 0]
    /\ result.state = "ok"
    /\ result.host = "127.0.0.1"
    /\ result.port \in EphemeralPorts
    /\ listener = result.port

\* the replies a forward cursor over R gives to k triggers
ForwardCursor(R, k) ==
    [i \in 1 .. k |-> IF i <= Len(R) THEN Text(to_string(R[i]))
                      ELSE Text(NoMoreResponse)]

\* C14: however the caller set the response sequence on the server, a
\* session emits what a forward cursor over that sequence emits.
C14_ReversalUnobservable ==
    \A c \in Conns :
        Served(c) => TextReplies(sent[c]) = ForwardCursor(configured, NTrig(c))

\* C15: the last call of a setter decides its field (for responses(), the
\* order of emission is the order of the last argument), and a setter
\* changes no other field.
C15_LastWriteWins ==
    /\ [] ( pc = "building" =>
              /\ lastCall.op = "host" => options.host = lastCall.arg
              /\ lastCall.op = "port" => options.port = lastCall.arg
              /\ lastCall.op = "responses" => reverse(responses) = lastCall.arg )
    /\ [][ (pc = "building" /\ pc' = "building") =>
              /\ lastCall'.op = "host" =>
                    options'.port = options.port /\ responses' = responses
              /\ lastCall'.op = "port" =>
                    options'.host = options.host /\ responses' = responses
              /\ lastCall'.op = "responses" => options' = options ]_vars

C15_Witness ==
    /\ pc = "building"
    /\ options = [host |-> "127.0.0.1", port |-> 8080]
    /\ lastCall.op = "responses"
    /\ Len(lastCall.arg) = 2
    /\ lastCall.arg[1] # lastCall.arg[2]
    /\ responses = << lastCall.arg[2], lastCall.arg[1] >>

\* C18: a default server has host "localhost", port 8080 and no response.
C18_Defaults ==
    lastCall.op = "default" =>
        /\ options = [host |-> "localhost", port |-> 8080]
        /\ responses = <<>>

\* the number of messages of type t in s
Count(s, t) == Len(SelectSeq(s, LAMBDA m : m.type = t))

\* C16: every message sent on a connection answers one trigger or one ping
\* read on it, and no connection is ended by the server: a session ends on
\* the close frame or the drop of its peer, and no stream is dropped by the
\* server itself.
C16_OnlyPeerEnds ==
    \A c \in Conns :
        /\ Count(sent[c], "Text") + Count(sent[c], "Pong") = Len(sent[c])
        /\ Count(sent[c], "Text") <= Count(rcvd[c], "Text")
        /\ Count(sent[c], "Pong") <= Count(rcvd[c], "Ping")
        /\ st[c] = "closed" => CloseRead(c)
        /\ st[c] \in { "ended", "errored" } => transport[c] # "up"
        /\ st[c] # "dropped"

C19_OneReplyPerTrigger ==
    /\ [] ( \A c \in Conns : Served(c) => Count(sent[c], "Text") = NTrig(c) )
    /\ [][ \A c \in Conns :
             /\ Reads(c, "Text") =>
                   TextReplies(sent'[c]) =
                       Append(TextReplies(sent[c]), Expected(NTrig(c) + 1))
             /\ ~Reads(c, "Text") =>
                   TextReplies(sent'[c]) = TextReplies(sent[c]) ]_vars

C19_Witness ==
    \E c \in Conns :
        /\ Len(configured) = 2
        /\ rcvd[c] = << Text("Some request"), Text("Some request") >>
        /\ sent[c] = << Expected(1), Expected(2) >>

\* the session of c is over
Over(c) == st[c] \in { "closed", "ended", "errored", "hsfailed" }

\* C20: at most one connection is in a session; it is the one the task
\* works on; no handshake runs while a session is open; and a connection is
\* taken from the listener only when the sessions of all earlier ones are
\* over.
C20_OneSessionAtATime ==
    /\ Cardinality({ c \in Conns : st[c] = "open" }) <= 1
    /\ \A c \in Conns : st[c] = "open" => (pc = "session" /\ cur = c)
    /\ pc = "handshake" => \A c \in Conns : st[c] # "open"
    /\ \A c, d \in Conns : (c < d /\ Accepted(d)) => Over(c)

C20_Witness ==
    /\ st[1] = "closed"
    /\ sent[1] # <<>>
    /\ st[2] = "open"
    /\ pc = "session"
    /\ st[3] = "pending"

====
